---- MODULE Spec2Model ----
(***************************************************************************)
(* A model of YeoshinScraper (src/yeoshin_scraper_st-claude.py): the       *)
(* crawl driven by scrape_data, the per-item extraction done by            *)
(* get_event_details, the session life cycle (setup_driver, cleanup) and   *)
(* what main() shows of the returned table.                                *)
(*                                                                         *)
(* The program is sequential; pc is its position.  Every call into the     *)
(* browser is a point where the environment (the site, the driver) decides *)
(* the outcome: the element resolves or not, the call raises or not.       *)
(*                                                                         *)
(* main() builds a new scraper for every run; the model also lets one      *)
(* scraper run scrape_data again, which the class allows.  self.results is *)
(* never written after __init__ and is left out.                           *)
(*                                                                         *)
(* Python strings are modelled as sequences of lexemes; " " is a           *)
(* whitespace lexeme, which str.strip() removes at both ends.  The Korean  *)
(* literals of the source are written in ASCII, the original beside them.  *)
(***************************************************************************)
EXTENDS Naturals, Integers, Sequences, FiniteSets, TLC

(***************************************************************************)
(* Bounds of the model.                                                    *)
(***************************************************************************)
\* Listing positions that may resolve; every position beyond does not.
MaxPos == 3
\* Option sub-positions that may resolve; every sub-position beyond does not.
MaxOpt == 2
\* Largest number of buttons a purchase section holds.
MaxButtons == 3
\* Calls of scrape_data on one scraper object.
MaxCrawls == 2

\* The most probes of one "while True" loop (lines 538 and 450) the model
\* follows: the loops have no bound of their own.
MaxProbes == 5
\* The item cap the specification documents (observed default 50).  The
\* source has no such constant; it is scaled below MaxPos so that a listing
\* longer than the cap exists within the bounds.
MAX_ITEMS == 2

(***************************************************************************)
(* Strings.                                                                *)
(***************************************************************************)
WS == " "

RECURSIVE LStrip(_)
LStrip(s) == IF s # <<>> /\ Head(s) = WS THEN LStrip(Tail(s)) ELSE s

RECURSIVE RStrip(_)
RStrip(s) ==
    IF s # <<>> /\ s[Len(s)] = WS THEN RStrip(SubSeq(s, 1, Len(s) - 1)) ELSE s

\* str.strip()
Strip(s) == RStrip(LStrip(s))

\* The defaults of event_data (lines 234-245).
NoHospital == <<"jeongbo eopseum">>          \* "정보 없음"
NoLocation == <<"wichi jeongbo eopseum">>    \* "위치 정보 없음"
NoEvent    == <<"ibenteu jeongbo eopseum">>  \* "이벤트 정보 없음"
NoOption   == <<"opsyeon jeongbo eopseum">>  \* "옵션 정보 없음"
NoPrice    == <<"gagyeok jeongbo eopseum">>  \* "가격 정보 없음"
NA         == <<"N/A">>

DefaultEventData ==
    [hospital_name |-> NoHospital,
     location      |-> NoLocation,
     event_name    |-> NoEvent,
     option_name   |-> NoOption,
     price         |-> NoPrice,
     rating        |-> NA,
     review_count  |-> NA,
     scrap_count   |-> NA,
     inquiry_count |-> NA,
     detail_link   |-> NA]

\* The fields get_event_details extracts, in the order of its blocks
\* (lines 251, 272, 293, 314, 335, 358, 379).
FieldOrder ==
    <<"event_name", "rating", "review_count", "hospital_name", "location",
      "inquiry_count", "scrap_count">>

FieldSet == {FieldOrder[k] : k \in 1..Len(FieldOrder)}

\* Every *_selectors list of get_event_details holds two locators.
NumSelectors == 2

(***************************************************************************)
(* The site.  A detail page says, for every field and candidate locator,   *)
(* what the locator finds, and what the purchase section holds.            *)
(***************************************************************************)
\* absent:  WebDriverWait(...).until(presence_of_element_located) times out
\* stale:   the element is located and reading its text raises
\* hidden:  the element is located and not displayed: WebElement.text is ""
\* visible: the element is located and displayed
CandStates == {"absent", "stale", "hidden", "visible"}

\* full:    div[idx], its name and its price all resolve
\* noname:  div[idx] resolves, div[idx]/div/p does not (NoSuchElementException)
\* noprice: div[idx] and the name resolve, div[idx]/p does not
\* absent:  div[idx] does not resolve (NoSuchElementException)
\* error:   a lookup raises another exception
OptStates == {"full", "noname", "noprice", "absent", "error"}

\* The text the site renders for candidate c of field f of item i.
RawText(i, f, c) == <<WS, f \o "#" \o ToString(i) \o "." \o ToString(c), WS>>
RawOptionName(i, k) == <<WS, "option#" \o ToString(i) \o "." \o ToString(k)>>
RawOptionPrice(i, k) == <<"price#" \o ToString(i) \o "." \o ToString(k), WS>>

NoOptions == [k \in 1..MaxOpt |-> "absent"]
AllOptions == [k \in 1..MaxOpt |-> "full"]

\* An option list on which every sub-position resolves in full, however far
\* the loop of line 450 goes.
EndlessOptions == [k \in 1..MaxOpt + 1 |-> "full"]

NoSection ==
    [section |-> FALSE, buttons |-> 0, clickOk |-> FALSE, container |-> FALSE,
     options |-> NoOptions]

WithButtons(n, ok, cont, opts) ==
    [section |-> TRUE, buttons |-> n, clickOk |-> ok, container |-> cont,
     options |-> opts]

\* Every purchase section, one record per distinguishable behaviour.
Purchases ==
    {NoSection, WithButtons(0, FALSE, FALSE, NoOptions)}
    \cup {WithButtons(n, FALSE, FALSE, NoOptions) : n \in 1..MaxButtons}
    \cup {WithButtons(n, TRUE, FALSE, NoOptions) : n \in 1..MaxButtons}
    \cup {WithButtons(n, TRUE, TRUE, o) :
            n \in 1..MaxButtons, o \in [1..MaxOpt -> OptStates]}

Uniform(s1, s2) == [f \in FieldSet |-> <<s1, s2>>]

\* Each field either resolves at both candidates or at none: every subset of
\* the fields fails.
BinaryCands ==
    [FieldSet -> {<<"visible", "visible">>, <<"absent", "absent">>}]

\* One field takes any pair of candidate states, the others resolve.
OneOddCands ==
    {[Uniform("visible", "visible") EXCEPT ![f] = <<s1, s2>>] :
        f \in FieldSet, s1 \in CandStates, s2 \in CandStates}

\* The title's slot h1/span taken by a "NEW" badge: the first span under h1
\* is the badge, which both selectors of lines 252-255 locate, and the title
\* is in the span after it, which none of them locates.
NewBadge == <<"NEW">>

BadgeCands ==
    {[Uniform("visible", "visible") EXCEPT !["event_name"] = <<"badge", s2>>] :
        s2 \in {"badge", "absent", "visible"}}

SiblingTitle(i) == <<"title#" \o ToString(i)>>

Page(i, cands, purchase) == [item |-> i, cand |-> cands, purchase |-> purchase]

\* Pages that vary the fields.
FieldVariants(i) ==
    {Page(i, c, p) :
        c \in BinaryCands \cup OneOddCands \cup BadgeCands,
        p \in {NoSection, WithButtons(1, TRUE, TRUE, AllOptions)}}

\* Pages that vary the purchase section.
PurchaseVariants(i) ==
    {Page(i, c, p) :
        c \in {Uniform("visible", "visible"), Uniform("absent", "visible"),
               Uniform("absent", "absent")},
        p \in Purchases}

\* The pages of a crawl over several items.
CrawlPages(i) ==
    {Page(i, Uniform("visible", "visible"), WithButtons(2, TRUE, TRUE, AllOptions)),
     Page(i, Uniform("absent", "visible"), WithButtons(0, FALSE, FALSE, NoOptions)),
     Page(i, Uniform("absent", "absent"), NoSection)}

\* A page whose option list never ends.
EndlessPage(i) ==
    Page(i, Uniform("visible", "visible"),
         WithButtons(1, TRUE, TRUE, EndlessOptions))

\* The scenarios bound the environment: "crawl" is a listing of up to MaxPos
\* items over a few pages, "detail" a listing of at most one item over every
\* page, "auth" every credential set over a listing of at most one item,
\* "repeat" a site that answers a keyword the same way at every crawl,
\* "login" every page check_login_status may see over a listing of at most
\* one item, "endless" a listing and an option list on which every position
\* resolves, next to the listings of at most one item.
Scenarios == {"crawl", "detail", "auth", "repeat", "login", "endless"}

Pages(sc, i) ==
    IF sc = "detail" THEN FieldVariants(i) \cup PurchaseVariants(i)
    ELSE IF sc = "endless" THEN CrawlPages(i) \cup {EndlessPage(i)}
    ELSE CrawlPages(i)

\* A listing on which every position resolves, however far the loop of line
\* 538 goes.
Endless == [i \in 1..MaxPos + 1 |-> TRUE]

\* Which positions div[idx]/article resolve on the listing.
Listings(sc) ==
    {l \in [1..MaxPos -> BOOLEAN] :
        sc # "crawl" => \A k \in 2..MaxPos : ~l[k]}
    \cup (IF sc = "endless" THEN {Endless} ELSE {})

NoPage == Page(0, Uniform("absent", "absent"), NoSection)

\* The cookies setup_driver injects (lines 151-157).
Tokens == {"_kau", "_kahai", "_karmt", "_kawlt", "access_token"}

\* What os.getenv gives for a token (lines 152-156): None when the variable
\* is not set, the empty string when it is set to nothing (a line "NAME=" of
\* the .env file read at line 41), a value otherwise.
TokenValues == {"none", "empty", "value"}

AllSet == [t \in Tokens |-> "value"]

\* The credential sets of "auth": every token is set or not, or one token of
\* a full set is empty, or every token is.
AuthCreds ==
    [Tokens -> {"none", "value"}]
    \cup {[AllSet EXCEPT ![t] = "empty"] : t \in Tokens}
    \cup {[t \in Tokens |-> "empty"]}

\* The credential sets of the environment, per scenario.
CredSets(sc) == IF sc = "auth" THEN AuthCreds ELSE {AllSet}

\* cookie["value"] is None (line 160)
IsNone(v) == v = "none"

\* The tokens add_cookie is called on (lines 159-173).
Attempted(c) == {t \in Tokens : ~IsNone(c[t])}

\* The sets of tokens whose add_cookie raises, per scenario: none, or one of
\* the tokens attempted.
AddCookieFailures(sc, c) ==
    IF sc = "auth" THEN {{}} \cup {{t} : t \in Attempted(c)} ELSE {{}}

Keywords == {"botox", "filler"}

\* What a site answers to one keyword: the listing, and the detail page
\* behind every position.
RepeatSites ==
    {[listing |-> l,
      pages |-> [i \in 1..MaxPos |->
                   IF i = 1 THEN p
                   ELSE Page(i, Uniform("absent", "absent"), NoSection)]] :
        l \in Listings("repeat"), p \in CrawlPages(1)}

\* The site of the other scenarios answers anew at every lookup.
FreeSite ==
    [kw \in Keywords |->
        [listing |-> [i \in 1..MaxPos |-> FALSE],
         pages |-> [i \in 1..MaxPos |->
                      Page(i, Uniform("absent", "absent"), NoSection)]]]

Sites(sc) == IF sc = "repeat" THEN [Keywords -> RepeatSites] ELSE {FreeSite}

\* The listings the search of keyword kw may show, and the pages the click
\* on position i may open.
ListingsNow(sc, st, kw) ==
    IF sc = "repeat" THEN {st[kw].listing} ELSE Listings(sc)

PagesNow(sc, st, kw, i) ==
    IF sc = "repeat" THEN {st[kw].pages[i]} ELSE Pages(sc, i)

(***************************************************************************)
(* The pure parts of the code.                                             *)
(***************************************************************************)
\* element.text of candidate c of field f on page p.
ElementText(p, f, c) ==
    IF p.cand[f][c] = "hidden" THEN <<>>
    ELSE IF p.cand[f][c] = "badge" THEN <<WS>> \o NewBadge
    ELSE RawText(p.item, f, c)

\* A candidate fails when the wait times out or reading the text raises: the
\* except branch of the selector loop.
CandidateFails(st) == st \in {"absent", "stale"}

\* The loop without its break: a later candidate that resolves overwrites
\* the value of an earlier one.
RECURSIVE TrySelectors_NoBreak(_, _, _, _)
TrySelectors_NoBreak(p, f, k, acc) ==
    IF k > NumSelectors THEN acc
    ELSE IF CandidateFails(p.cand[f][k])
         THEN TrySelectors_NoBreak(p, f, k + 1,
                                   [acc EXCEPT !.tried = Append(@, k)])
         ELSE TrySelectors_NoBreak(p, f, k + 1,
                                   [value |-> Strip(ElementText(p, f, k)),
                                    tried |-> Append(acc.tried, k)])

\* for selector in <field>_selectors: try: ...; break / except: log
\* (lines 258-270 and its six copies).  acc.value is event_data[f] so far,
\* acc.tried the candidates attempted.
RECURSIVE TrySelectors(_, _, _, _)
TrySelectors(p, f, k, acc) ==
    IF k > NumSelectors THEN acc
    ELSE IF CandidateFails(p.cand[f][k])
         THEN TrySelectors(p, f, k + 1, [acc EXCEPT !.tried = Append(@, k)])
         ELSE [value |-> Strip(ElementText(p, f, k)),
               tried |-> Append(acc.tried, k)]

\* The choice of the first button whenever there is one.
ChooseButton_First(n) == IF n >= 1 THEN 0 ELSE -1

\* The choice without the test for an empty list: buttons[0] is clicked on
\* although there is none.
ChooseButton_NoGuard(n) == IF n >= 2 THEN 1 ELSE 0

\* The index into buttons that is clicked, -1 when none is (lines 419-434).
ChooseButton(n) == IF n = 1 THEN 0 ELSE IF n >= 2 THEN 1 ELSE -1

\* The return without its fallback to [event_data].
OptionsResult_NoFallback(opts, ed) == opts

\* return options_data if options_data else [event_data] (line 483)
OptionsResult(opts, ed) == IF opts # <<>> THEN opts ELSE <<ed>>

\* The row of option k with the address of the item's page stored in it.
OptionRow_WithLink(ed, i, k) ==
    [ed EXCEPT !.option_name = Strip(RawOptionName(i, k)),
               !.price = Strip(RawOptionPrice(i, k)),
               !.detail_link = <<"detail#" \o ToString(i)>>]

\* The row of option k (lines 468-470).
OptionRow(ed, i, k) ==
    [ed EXCEPT !.option_name = Strip(RawOptionName(i, k)),
               !.price = Strip(RawOptionPrice(i, k))]

\* scroll_to_load_all (lines 195-214).  g[k] is what the page does in round
\* k, after the scroll to the bottom of line 201: "grew" when the wait of line
\* 205 sees a greater height and the height read at line 211 differs from
\* last_height, "timeout" when the wait times out (break, line 209), "same"
\* when the height read at line 211 equals last_height (break, line 213),
\* "raise" when a call of the round raises anything else.  The result is the
\* number of rounds that scrolled, whether the loop ended on a round without
\* growth, and whether the call raised.
NumRounds == 5

ScrollAnswers == {"grew", "timeout", "same", "raise"}

RECURSIVE ScrollToLoadAll(_, _)
ScrollToLoadAll(g, k) ==
    IF k > NumRounds
    THEN [rounds |-> NumRounds, stalled |-> FALSE, raised |-> FALSE]
    ELSE IF g[k] = "grew" THEN ScrollToLoadAll(g, k + 1)
    ELSE IF g[k] = "raise"
    THEN [rounds |-> k, stalled |-> FALSE, raised |-> TRUE]
    ELSE [rounds |-> k, stalled |-> TRUE, raised |-> FALSE]

\* Every result of a call: the read of line 198 raises before any round, or
\* the rounds run against some page.
ScrollResults ==
    {[rounds |-> 0, stalled |-> FALSE, raised |-> TRUE]}
    \cup {ScrollToLoadAll(g, 1) : g \in [1..NumRounds -> ScrollAnswers]}

\* The selector loop of check_login_status (lines 87-99): True at the first
\* indicator that is present and displayed.  An indicator that is "absent"
\* times the wait out, one that is "stale" makes is_displayed raise: the bare
\* except of line 98 goes on to the next one.
NumIndicators == 4

RECURSIVE LoginLoop(_, _)
LoginLoop(ind, k) ==
    IF k > NumIndicators THEN FALSE
    ELSE IF ind[k] = "visible" THEN TRUE
    ELSE LoginLoop(ind, k + 1)

\* The indicators the loop waits for, in the order it does.
RECURSIVE LoginTried(_, _)
LoginTried(ind, k) ==
    IF k > NumIndicators THEN <<>>
    ELSE IF ind[k] = "visible" THEN <<k>>
    ELSE <<k>> \o LoginTried(ind, k + 1)

\* What find_elements for the login link (line 102) does.
LinkStates == {"present", "absent", "raise"}

\* The body of the try of check_login_status (lines 76-108): it returns True
\* or False, or something in it raises: driver.get (navOk is false) or
\* find_elements.
LoginBody(navOk, ind, link) ==
    IF ~navOk THEN "raise"
    ELSE IF LoginLoop(ind, 1) THEN "true"
    ELSE IF link = "raise" THEN "raise"
    ELSE IF link = "present" THEN "false"
    ELSE "false"

\* check_login_status without its handler of line 110: what is raised in the
\* body reaches the caller.
CheckLoginStatus_NoExcept(navOk, ind, link) ==
    [returned |-> LoginBody(navOk, ind, link) = "true",
     raised |-> LoginBody(navOk, ind, link) = "raise",
     tried |-> IF navOk THEN LoginTried(ind, 1) ELSE <<>>]

\* check_login_status (lines 73-112): the value returned, whether the call
\* raised, and the indicators tried.  The handler of line 110 turns whatever
\* the body raises into False.
CheckLoginStatus(navOk, ind, link) ==
    [returned |-> LoginBody(navOk, ind, link) = "true",
     raised |-> FALSE,
     tried |-> IF navOk THEN LoginTried(ind, 1) ELSE <<>>]

\* What the page myPage may show: the state of each indicator and of the
\* login link.  In "login" every indicator is visible or not, the ones that
\* are not being all absent, all stale or all hidden; the other scenarios
\* take one page per answer.
LoginInds ==
    UNION {[1..NumIndicators -> {st, "visible"}] :
             st \in CandStates \ {"visible"}}

MyPages(sc) ==
    IF sc = "login"
    THEN [ind : LoginInds, link : LinkStates]
    ELSE {[ind |-> [k \in 1..NumIndicators |-> "visible"], link |-> "absent"],
          [ind |-> [k \in 1..NumIndicators |-> "absent"], link |-> "present"],
          [ind |-> [k \in 1..NumIndicators |-> "hidden"], link |-> "absent"]}

\* The record of a call: its inputs and what CheckLoginStatus did.
LoginCall(navOk, pg) ==
    [navOk |-> navOk, ind |-> pg.ind, link |-> pg.link, called |-> TRUE,
     call |-> CheckLoginStatus(navOk, pg.ind, pg.link)]

\* pd.DataFrame(rows): the columns are the keys of the rows.
DataFrame(rows) ==
    [columns |-> IF rows = <<>> THEN {} ELSE DOMAIN rows[1], rows |-> rows]

\* df.empty
Empty(df) == df.rows = <<>> \/ df.columns = {}

\* validate_data (lines 653-661)
RequiredColumns ==
    {"hospital_name", "location", "event_name", "option_name", "price",
     "rating", "review_count", "scrap_count", "inquiry_count"}

ValidateData(df) == RequiredColumns \subseteq df.columns

\* What main() shows for a returned table (lines 893-937).
Shown(df) == IF ~Empty(df) /\ ValidateData(df) THEN "success" ELSE "warning"

\* The value without its offset of 0.3.
ProgressValue_NoOffset(i, total) == <<7 * i, 10 * total>>

\* progress_value = 0.3 + (0.7 * (idx / total_items)) as a fraction <<n, d>>.
ProgressValue(i, total) == <<3 * total + 7 * i, 10 * total>>

(***************************************************************************)
(* State.                                                                  *)
(***************************************************************************)
VARIABLES
    scenario,         \* the family the environment is drawn from
    creds,            \* what os.getenv gives for every token
    site,             \* per keyword, what the site of "repeat" answers
    driver,           \* self.driver: 0 is None, else the session
    current_keyword,  \* self.current_keyword ("" is None)
    created,          \* sessions created so far
    quitCalls,        \* the sessions quit() was called on, in order
    quitError,        \* a quit() of this crawl raised
    cookies,          \* the names of the cookies of the session
    warned,           \* the tokens of "Missing cookie value" warnings (line 161)
    cookieErrors,     \* the tokens whose add_cookie raised (line 173)
    loc,              \* the page the session is on
    listing,          \* which listing positions resolve
    page,             \* the detail page the session is on
    pc,               \* the position in scrape_data / get_event_details
    keyword,          \* scrape_data's argument
    events,           \* len(events) of the enumeration loop
    total_items, idx, all_events_data, current_url, progress_value, item_data,
    event_data, options_data,
    fieldIdx,         \* the block of get_event_details being run (0: none)
    optIdx,           \* idx of the option loop (line 450)
    tried,            \* per field, the candidates attempted, in order
    clicked,          \* the index of the button clicked on (-1: none)
    containerProbed,  \* the option container was looked for
    progress,         \* the values given to progress_bar.progress, in order
    returned,         \* the table scrape_data returned
    outcome,          \* "complete": line 612, "fatal": line 616
    fatalAt,          \* the position the exception of a fatal crawl came from
    shown,            \* what main() showed
    crawls,           \* calls of scrape_data so far
    prev,             \* in "repeat", what the crawl before this one gave
    verifyCalls,      \* calls of check_login_status in this crawl
    verifyFailedAt,   \* the call that returned False (0: none did)
    searches,         \* searches issued in this crawl
    probed,           \* the positions probed on the listing in this crawl
    itemStatus,       \* how far each item of this crawl got
    added,            \* every row added to all_events_data in this crawl,
                      \* with the position of its item
    attempts,         \* the positions whose item cycle began, in order
    scrolls,          \* what each call of scroll_to_load_all of this crawl's
                      \* search did; dropped when the enumeration starts
    probe             \* the call of check_login_status that has just been
                      \* made: what the page showed and what the call did

objVars == <<driver, current_keyword>>
envVars == <<scenario, creds, site>>
logVars == <<warned, cookieErrors>>
sessVars == <<created, quitCalls, quitError, cookies, logVars>>
siteVars == <<loc, listing, page>>
crawlVars ==
    <<keyword, events, total_items, idx, all_events_data, current_url, progress_value,
      item_data>>
detailVars ==
    <<event_data, options_data, fieldIdx, optIdx, tried, clicked,
      containerProbed>>
outVars == <<progress, returned, outcome, shown, fatalAt>>
runVars == <<crawls, prev>>
ghostVars ==
    <<verifyCalls, verifyFailedAt, searches, probed, itemStatus, added,
      attempts>>

vars ==
    <<envVars, objVars, sessVars, siteVars, pc, crawlVars, detailVars,
      outVars, runVars, ghostVars, scrolls, probe>>

NoTable == DataFrame(<<>>)
NoTried == [f \in FieldSet |-> <<>>]
NoStatus == [i \in 1..MaxPos |-> "pending"]
NoListing == [i \in 1..MaxPos |-> FALSE]
\* No call of check_login_status made on its own yet.
NoProbe ==
    [navOk |-> FALSE, ind |-> [k \in 1..NumIndicators |-> "absent"],
     link |-> "absent", called |-> FALSE,
     call |-> [returned |-> FALSE, raised |-> FALSE, tried |-> <<>>]]

NoPrev ==
    [keyword |-> "", status |-> NoStatus, outcome |-> "none", rows |-> <<>>]

\* The locals of one item cycle, before it starts.
ItemLocalsReset ==
    /\ current_url' = "none"
    /\ progress_value' = <<0, 1>>
    /\ item_data' = <<>>
    /\ event_data' = DefaultEventData
    /\ options_data' = <<>>
    /\ fieldIdx' = 0
    /\ optIdx' = 0
    /\ tried' = NoTried
    /\ clicked' = -1
    /\ containerProbed' = FALSE

\* YeoshinScraper.__init__ (lines 44-48), before the first scrape_data.
InitIn(sc) ==
    /\ scenario = sc
    /\ creds \in CredSets(scenario)
    /\ site \in Sites(scenario)
    /\ driver = 0
    /\ current_keyword = ""
    /\ created = 0
    /\ quitCalls = <<>>
    /\ quitError = FALSE
    /\ cookies = {}
    /\ warned = {}
    /\ cookieErrors = {}
    /\ loc = "blank"
    /\ listing = NoListing
    /\ page = NoPage
    /\ pc = "idle"
    /\ keyword = ""
    /\ events = 0
    /\ total_items = 0
    /\ idx = 0
    /\ all_events_data = <<>>
    /\ current_url = "none"
    /\ progress_value = <<0, 1>>
    /\ item_data = <<>>
    /\ event_data = DefaultEventData
    /\ options_data = <<>>
    /\ fieldIdx = 0
    /\ optIdx = 0
    /\ tried = NoTried
    /\ clicked = -1
    /\ containerProbed = FALSE
    /\ progress = <<>>
    /\ returned = NoTable
    /\ outcome = "none"
    /\ fatalAt = "none"
    /\ shown = "none"
    /\ crawls = 0
    /\ prev = NoPrev
    /\ verifyCalls = 0
    /\ verifyFailedAt = 0
    /\ searches = 0
    /\ probed = {}
    /\ itemStatus = NoStatus
    /\ added = <<>>
    /\ attempts = <<>>
    /\ scrolls = <<>>
    /\ probe = NoProbe

(***************************************************************************)
(* Session life cycle.                                                     *)
(***************************************************************************)
\* cleanup with "self.driver = None" after quit() inside the try, not in a
\* finally clause: a quit() that raises leaves the driver set.
Cleanup_NoFinally(raises, err) ==
    IF driver # 0
    THEN /\ quitCalls' = Append(quitCalls, driver)
         /\ quitError' = (err \/ raises)
         /\ driver' = IF raises THEN driver ELSE 0
         /\ cookies' = {}
         /\ loc' = "blank"
         /\ listing' = NoListing
         /\ page' = NoPage
    ELSE /\ quitError' = err
         /\ UNCHANGED <<quitCalls, driver, cookies, loc, listing, page>>

\* cleanup without "self.driver = None": the session is asked to quit and the
\* reference to it is kept.
Cleanup_KeepRef(raises, err) ==
    IF driver # 0
    THEN /\ quitCalls' = Append(quitCalls, driver)
         /\ quitError' = (err \/ raises)
         /\ driver' = driver
         /\ cookies' = {}
         /\ loc' = "blank"
         /\ listing' = NoListing
         /\ page' = NoPage
    ELSE /\ quitError' = err
         /\ UNCHANGED <<quitCalls, driver, cookies, loc, listing, page>>

\* cleanup (lines 54-62): quit() is called on the session and, whether it
\* raises or not, self.driver becomes None.  err is quitError before the call.
Cleanup(raises, err) ==
    IF driver # 0
    THEN /\ quitCalls' = Append(quitCalls, driver)
         /\ quitError' = (err \/ raises)
         /\ driver' = 0
         /\ cookies' = {}
         /\ loc' = "blank"
         /\ listing' = NoListing
         /\ page' = NoPage
    ELSE /\ quitError' = err
         /\ UNCHANGED <<quitCalls, driver, cookies, loc, listing, page>>

\* except Exception (lines 614-616): the error is logged and an empty
\* DataFrame is the return value; the finally clause runs next.
Fatal ==
    /\ returned' = DataFrame(<<>>)
    /\ outcome' = "fatal"
    /\ fatalAt' = pc
    /\ pc' = "finally"
    /\ UNCHANGED <<progress, shown>>

\* scrape_data with the rows kept on the object and never emptied, instead
\* of the local list of line 559.
StartScrape_KeepRows ==
    /\ pc = "idle"
    /\ crawls < MaxCrawls
    /\ \E kw \in Keywords, raises \in IF driver = 0 THEN {FALSE} ELSE BOOLEAN :
        /\ keyword' = kw
        /\ Cleanup(raises, FALSE)
    /\ crawls' = crawls + 1
    /\ prev' = IF scenario = "repeat" /\ crawls > 0
               THEN [keyword |-> keyword, status |-> itemStatus,
                     outcome |-> outcome, rows |-> returned.rows]
               ELSE prev
    /\ pc' = "setup_driver"
    /\ events' = 0
    /\ total_items' = 0
    /\ idx' = 0
    /\ all_events_data' = all_events_data
    /\ ItemLocalsReset
    /\ progress' = <<>>
    /\ returned' = NoTable
    /\ outcome' = "none"
    /\ fatalAt' = "none"
    /\ shown' = "none"
    /\ warned' = {}
    /\ cookieErrors' = {}
    /\ verifyCalls' = 0
    /\ verifyFailedAt' = 0
    /\ searches' = 0
    /\ probed' = {}
    /\ itemStatus' = NoStatus
    /\ added' = <<>>
    /\ attempts' = <<>>
    /\ scrolls' = <<>>
    /\ UNCHANGED <<envVars, probe, current_keyword, created>>

\* scrape_data is called (line 500) and runs self.cleanup() (line 502).
StartScrape ==
    /\ pc = "idle"
    /\ crawls < MaxCrawls
    /\ \E kw \in Keywords, raises \in IF driver = 0 THEN {FALSE} ELSE BOOLEAN :
        /\ keyword' = kw
        /\ Cleanup(raises, FALSE)
    /\ crawls' = crawls + 1
    /\ prev' = IF scenario = "repeat" /\ crawls > 0
               THEN [keyword |-> keyword, status |-> itemStatus,
                     outcome |-> outcome, rows |-> returned.rows]
               ELSE prev
    /\ pc' = "setup_driver"
    /\ events' = 0
    /\ total_items' = 0
    /\ idx' = 0
    /\ all_events_data' = <<>>
    /\ ItemLocalsReset
    /\ progress' = <<>>
    /\ returned' = NoTable
    /\ outcome' = "none"
    /\ fatalAt' = "none"
    /\ shown' = "none"
    /\ warned' = {}
    /\ cookieErrors' = {}
    /\ verifyCalls' = 0
    /\ verifyFailedAt' = 0
    /\ searches' = 0
    /\ probed' = {}
    /\ itemStatus' = NoStatus
    /\ added' = <<>>
    /\ attempts' = <<>>
    /\ scrolls' = <<>>
    /\ UNCHANGED <<envVars, probe, current_keyword, created>>

\* setup_driver, lines 142-144: the driver is installed and the session
\* created, or one of the two raises (re-raised at line 183).
SetupDriver_Create ==
    /\ pc = "setup_driver"
    /\ \/ /\ created' = created + 1
          /\ driver' = created + 1
          /\ pc' = "setup_get"
          /\ UNCHANGED outVars
       \/ /\ Fatal
          /\ UNCHANGED <<created, driver>>
    /\ UNCHANGED <<envVars, probe, scrolls, current_keyword, quitCalls, quitError,
                   cookies, logVars, siteVars, crawlVars, detailVars, runVars, ghostVars>>

\* setup_driver, line 148: driver.get(site root).
SetupDriver_Get ==
    /\ pc = "setup_get"
    /\ \/ /\ loc' = "root"
          /\ pc' = "setup_cookies"
          /\ UNCHANGED outVars
       \/ /\ Fatal
          /\ UNCHANGED loc
    /\ UNCHANGED <<envVars, probe, scrolls, objVars, sessVars, listing, page, crawlVars,
                   detailVars, runVars, ghostVars>>

\* setup_driver, lines 159-173: a token whose value is None is skipped with
\* a warning, add_cookie is called on the others; an add_cookie that raises
\* is logged as an error.
SetupDriver_Cookies ==
    /\ pc = "setup_cookies"
    /\ warned' = {t \in Tokens : IsNone(creds[t])}
    /\ \E failing \in AddCookieFailures(scenario, creds) :
        /\ cookies' = cookies \cup (Attempted(creds) \ failing)
        /\ cookieErrors' = failing
    /\ pc' = "setup_refresh"
    /\ UNCHANGED <<envVars, probe, scrolls, objVars, created, quitCalls, quitError,
                   siteVars, crawlVars, detailVars, outVars, runVars, ghostVars>>

\* setup_driver, line 175: driver.refresh().
SetupDriver_Refresh ==
    /\ pc = "setup_refresh"
    /\ \/ /\ pc' = "setup_verify"
          /\ UNCHANGED outVars
       \/ Fatal
    /\ UNCHANGED <<envVars, probe, scrolls, objVars, sessVars, siteVars, crawlVars,
                   detailVars, runVars, ghostVars>>

\* The check without its raise: a failed verification is logged and the
\* crawl goes on.
Verify_NoRaise(then) ==
    /\ \E navOk \in BOOLEAN, pg \in MyPages(scenario) :
        LET c == LoginCall(navOk, pg)
        IN /\ probe' = c
           /\ loc' = IF navOk THEN "mypage" ELSE loc
           /\ verifyCalls' = verifyCalls + 1
           /\ verifyFailedAt' =
                IF c.call.returned THEN verifyFailedAt ELSE verifyCalls + 1
    /\ pc' = then
    /\ UNCHANGED <<envVars, scrolls, objVars, sessVars, listing, page, crawlVars,
                   detailVars, outVars, runVars, searches, probed, itemStatus,
                   added, attempts>>

\* if not self.check_login_status(): raise Exception(...), at lines 178-179
\* (then) and at lines 505-506.  A call that raised would reach the same
\* handlers as the raise of the caller.
Verify(then) ==
    /\ \E navOk \in BOOLEAN, pg \in MyPages(scenario) :
        LET c == LoginCall(navOk, pg)
        IN /\ probe' = c
           /\ loc' = IF navOk THEN "mypage" ELSE loc
           /\ verifyCalls' = verifyCalls + 1
           /\ IF c.call.returned
              THEN /\ pc' = then
                   /\ UNCHANGED <<outVars, verifyFailedAt>>
              ELSE /\ Fatal
                   /\ verifyFailedAt' = verifyCalls + 1
    /\ UNCHANGED <<envVars, scrolls, objVars, sessVars, listing, page, crawlVars,
                   detailVars, runVars, searches, probed, itemStatus, added, attempts>>

SetupDriver_Verify == pc = "setup_verify" /\ Verify("scrape_verify")

ScrapeData_Verify == pc = "scrape_verify" /\ Verify("search")

(***************************************************************************)
(* Search and listing enumeration.                                         *)
(***************************************************************************)
\* search_keyword, lines 219-223: the keyword is stored, the search page is
\* loaded and 0.2 reported.  wait_for_page_load absorbs a timeout (line 192);
\* anything else raised is re-raised at line 231.
SearchKeyword_Get ==
    /\ pc = "search"
    /\ current_keyword' = keyword
    /\ searches' = searches + 1
    /\ probe' = NoProbe
    /\ \E r \in {"ok", "timeout", "get_raises", "wait_raises"} :
        IF r \in {"ok", "timeout"}
        THEN /\ loc' = "listing"
             /\ progress' = Append(progress, <<2, 10>>)
             /\ pc' = "search_scroll"
             /\ UNCHANGED <<returned, outcome, shown, fatalAt>>
        ELSE /\ loc' = IF r = "wait_raises" THEN "listing" ELSE loc
             /\ Fatal
    /\ UNCHANGED <<envVars, scrolls, driver, sessVars, listing, page, crawlVars,
                   detailVars, runVars, verifyCalls, verifyFailedAt, probed,
                   itemStatus, added, attempts>>

\* search_keyword, lines 225-227: scroll_to_load_all, then 0.3 is reported.
SearchKeyword_Scroll ==
    /\ pc = "search_scroll"
    /\ \E r \in ScrollResults :
        /\ scrolls' = Append(scrolls, r)
        /\ IF ~r.raised
           THEN /\ progress' = Append(progress, <<3, 10>>)
                /\ pc' = "scroll"
                /\ UNCHANGED <<returned, outcome, shown, fatalAt>>
           ELSE Fatal
    /\ UNCHANGED <<envVars, probe, objVars, sessVars, siteVars, crawlVars,
                   detailVars, runVars, ghostVars>>

\* scrape_data, lines 509-510: after the return of search_keyword and a
\* pause, scroll_to_load_all is called once more.
ScrapeData_Scroll ==
    /\ pc = "scroll"
    /\ \E r \in ScrollResults :
        /\ scrolls' = Append(scrolls, r)
        /\ IF ~r.raised
           THEN pc' = "container" /\ UNCHANGED outVars
           ELSE Fatal
    /\ UNCHANGED <<envVars, probe, objVars, sessVars, siteVars, crawlVars,
                   detailVars, runVars, ghostVars>>

\* scrape_data, lines 518-534: the list container is looked for with two
\* locators; when neither resolves the crawl raises.  The listing the
\* enumeration will see is the environment's choice.
FindContainer ==
    /\ pc = "container"
    /\ \E c \in [1..2 -> BOOLEAN] :
        IF c[1] \/ c[2]
        THEN /\ \E l \in ListingsNow(scenario, site, keyword) : listing' = l
             /\ events' = 0
             /\ idx' = 1
             /\ pc' = "enumerate"
             /\ UNCHANGED outVars
        ELSE /\ Fatal
             /\ UNCHANGED <<listing, events, idx>>
    /\ scrolls' = <<>>
    /\ UNCHANGED <<envVars, probe, objVars, sessVars, loc, page, keyword,
                   total_items, all_events_data, current_url, progress_value,
                   item_data, detailVars, runVars, ghostVars>>

\* driver.find_element on div[i]/article (line 545) finds an element.
Resolves(l, i) == l = Endless \/ (i <= MaxPos /\ l[i])

\* The loop entered whatever total_items is: with no item its body computes
\* the progress of position 1 over a count of 0.
LoopFirst_Always(n) == pc' = "item_begin" /\ idx' = 1

\* The loop "for idx in range(1, total_items + 1)" at its first iteration.
LoopFirst(n) ==
    IF n >= 1 THEN pc' = "item_begin" /\ idx' = 1
    ELSE pc' = "return" /\ idx' = 0

\* The enumeration with total_items taken from idx, one past the last
\* element found, instead of len(events).
EnumProbe_OffByOne ==
    /\ pc = "enumerate"
    /\ idx <= MaxProbes
    /\ probed' = probed \cup {idx}
    /\ \/ /\ IF Resolves(listing, idx)
             THEN /\ events' = events + 1
                  /\ idx' = idx + 1
                  /\ pc' = "enumerate"
                  /\ UNCHANGED total_items
             ELSE /\ total_items' = idx
                  /\ LoopFirst(idx)
                  /\ UNCHANGED events
          /\ UNCHANGED outVars
       \/ /\ Fatal
          /\ UNCHANGED <<events, idx, total_items>>
    /\ UNCHANGED <<envVars, probe, scrolls, objVars, sessVars, siteVars, keyword,
                   all_events_data, current_url, progress_value, item_data,
                   detailVars, runVars, verifyCalls, verifyFailedAt, searches,
                   itemStatus, added, attempts>>

\* scrape_data, lines 539-555: position idx is probed; an element is
\* appended, NoSuchElementException ends the loop, anything else raised
\* reaches line 614.
EnumProbe ==
    /\ pc = "enumerate"
    /\ idx <= MaxProbes
    /\ probed' = probed \cup {idx}
    /\ \/ /\ IF Resolves(listing, idx)
             THEN /\ events' = events + 1
                  /\ idx' = idx + 1
                  /\ pc' = "enumerate"
                  /\ UNCHANGED total_items
             ELSE /\ total_items' = events
                  /\ LoopFirst(events)
                  /\ UNCHANGED events
          /\ UNCHANGED outVars
       \/ /\ Fatal
          /\ UNCHANGED <<events, idx, total_items>>
    /\ UNCHANGED <<envVars, probe, scrolls, objVars, sessVars, siteVars, keyword,
                   all_events_data, current_url, progress_value, item_data,
                   detailVars, runVars, verifyCalls, verifyFailedAt, searches,
                   itemStatus, added, attempts>>

(***************************************************************************)
(* The item loop of scrape_data (lines 562-608).                           *)
(***************************************************************************)
\* The loop stepping over a position.
LoopNext_Skip ==
    /\ IF idx < total_items
       THEN /\ pc' = "item_begin"
            /\ idx' = IF idx + 2 <= total_items THEN idx + 2 ELSE idx + 1
       ELSE pc' = "return" /\ idx' = idx
    /\ ItemLocalsReset

\* The loop moves to the next position, or ends.
LoopNext ==
    /\ IF idx < total_items
       THEN pc' = "item_begin" /\ idx' = idx + 1
       ELSE pc' = "return" /\ idx' = idx
    /\ ItemLocalsReset

\* The except clause with break in the place of continue.
ItemFailed_Break(how) ==
    /\ itemStatus' = [itemStatus EXCEPT ![idx] = how]
    /\ pc' = "return"
    /\ idx' = idx
    /\ ItemLocalsReset
    /\ UNCHANGED outVars

\* The loop body without its except clauses: the failure of an item reaches
\* the handler of line 614.
ItemFailed_Abort(how) ==
    /\ itemStatus' = [itemStatus EXCEPT ![idx] = how]
    /\ Fatal
    /\ idx' = idx
    /\ ItemLocalsReset

\* An except clause of the loop body (lines 600-602, 606-608): log, continue.
ItemFailed(how) ==
    /\ itemStatus' = [itemStatus EXCEPT ![idx] = how]
    /\ LoopNext
    /\ UNCHANGED outVars

\* Lines 564-568: progress_value is computed and the current URL read.
ItemBegin ==
    /\ pc = "item_begin"
    /\ attempts' = Append(attempts, idx)
    /\ \/ /\ progress_value' = ProgressValue(idx, total_items)
          /\ current_url' = loc
          /\ pc' = "item_click"
          /\ UNCHANGED <<idx, item_data, detailVars, itemStatus, outVars>>
       \/ ItemFailed("url_failed")
    /\ UNCHANGED <<envVars, probe, scrolls, objVars, sessVars, siteVars, keyword,
                   events, total_items, all_events_data, runVars, verifyCalls,
                   verifyFailedAt, searches, probed, added>>

\* Lines 578-587: the article at position idx is waited for and clicked; the
\* locator is the listing's, so it resolves on the listing only.  The click
\* opens the detail page of the item.
ItemClick ==
    /\ pc = "item_click"
    /\ probed' = probed \cup {idx}
    /\ \/ /\ loc = "listing"
          /\ loc' = "detail"
          /\ \E p \in PagesNow(scenario, site, keyword, idx) : page' = p
          /\ event_data' = DefaultEventData
          /\ fieldIdx' = 1
          /\ pc' = "fields"
          /\ UNCHANGED <<idx, current_url, progress_value, item_data,
                         options_data, optIdx, tried, clicked,
                         containerProbed, itemStatus, outVars>>
       \/ /\ ItemFailed("click_failed")
          /\ UNCHANGED <<loc, page>>
    /\ UNCHANGED <<envVars, probe, scrolls, objVars, sessVars, listing, keyword,
                   events, total_items, all_events_data, runVars, verifyCalls,
                   verifyFailedAt, searches, added, attempts>>

(***************************************************************************)
(* get_event_details (lines 233-498), entered once the click has opened    *)
(* the detail page.  Every browser call of the function sits inside a try  *)
(* of its own, so the handler of line 496 (return None) is never reached.  *)
(***************************************************************************)
\* get_event_details returns rows to line 590.
ReturnRows(rows) ==
    /\ item_data' = rows
    /\ pc' = "extend"

\* Extraction that gives up at the first field none of whose candidates
\* resolves: the later fields and the options are not attempted.
ExtractField_AbortOnFailure ==
    /\ pc = "fields"
    /\ LET f == FieldOrder[fieldIdx]
           r == TrySelectors(page, f, 1, [value |-> event_data[f], tried |-> <<>>])
       IN /\ event_data' = [event_data EXCEPT ![f] = r.value]
          /\ tried' = [tried EXCEPT ![f] = r.tried]
          /\ IF \A c \in 1..NumSelectors : CandidateFails(page.cand[f][c])
             THEN /\ fieldIdx' = 0
                  /\ ReturnRows(<<[event_data EXCEPT ![f] = r.value]>>)
             ELSE /\ UNCHANGED item_data
                  /\ IF fieldIdx < Len(FieldOrder)
                     THEN fieldIdx' = fieldIdx + 1 /\ pc' = "fields"
                     ELSE fieldIdx' = 0 /\ pc' = "section"
    /\ UNCHANGED <<envVars, probe, scrolls, objVars, sessVars, siteVars, keyword,
                   events, total_items, idx, all_events_data, current_url,
                   progress_value, options_data, optIdx, clicked,
                   containerProbed, outVars, runVars, ghostVars>>

\* One of the seven extraction blocks (lines 251-398), in their order.
ExtractField ==
    /\ pc = "fields"
    /\ LET f == FieldOrder[fieldIdx]
           r == TrySelectors(page, f, 1, [value |-> event_data[f], tried |-> <<>>])
       IN /\ event_data' = [event_data EXCEPT ![f] = r.value]
          /\ tried' = [tried EXCEPT ![f] = r.tried]
    /\ IF fieldIdx < Len(FieldOrder)
       THEN fieldIdx' = fieldIdx + 1 /\ pc' = "fields"
       ELSE fieldIdx' = 0 /\ pc' = "section"
    /\ UNCHANGED <<envVars, probe, scrolls, objVars, sessVars, siteVars, keyword,
                   events, total_items, idx, all_events_data, current_url,
                   progress_value, item_data, options_data, optIdx, clicked,
                   containerProbed, outVars, runVars, ghostVars>>

\* The wait for the purchase section outside every try of
\* get_event_details and of the loop body: its failure reaches line 614.
FindSection_Raise ==
    /\ pc = "section"
    /\ IF page.purchase.section
       THEN pc' = "buttons" /\ UNCHANGED outVars
       ELSE Fatal
    /\ UNCHANGED <<envVars, probe, scrolls, objVars, sessVars, siteVars, keyword,
                   events, total_items, idx, all_events_data, current_url,
                   progress_value, item_data, detailVars, runVars, ghostVars>>

\* Lines 408-411: the purchase section is waited for; when the wait fails
\* the handler of line 485 returns [event_data].
FindSection ==
    /\ pc = "section"
    /\ IF page.purchase.section
       THEN pc' = "buttons" /\ UNCHANGED item_data
       ELSE ReturnRows(<<event_data>>)
    /\ UNCHANGED <<envVars, probe, scrolls, objVars, sessVars, siteVars, keyword,
                   events, total_items, idx, all_events_data, current_url,
                   progress_value, detailVars, outVars, runVars, ghostVars>>

\* Lines 415-438: the buttons of the section are listed and one of them is
\* clicked; without a successful click [event_data] is returned.
ClickPurchase ==
    /\ pc = "buttons"
    /\ LET b == ChooseButton(page.purchase.buttons)
           purchase_button_clicked == b >= 0 /\ page.purchase.clickOk
       IN /\ clicked' = b
          /\ IF purchase_button_clicked
             THEN pc' = "options" /\ UNCHANGED item_data
             ELSE ReturnRows(<<event_data>>)
    /\ UNCHANGED <<envVars, probe, scrolls, objVars, sessVars, siteVars, keyword,
                   events, total_items, idx, all_events_data, current_url,
                   progress_value, event_data, options_data, fieldIdx, optIdx,
                   tried, containerProbed, outVars, runVars, ghostVars>>

\* Lines 443-450: the option container is waited for; when the wait fails
\* the handler of line 485 returns [event_data].
FindOptions ==
    /\ pc = "options"
    /\ containerProbed' = TRUE
    /\ IF page.purchase.container
       THEN pc' = "option" /\ optIdx' = 1 /\ UNCHANGED item_data
       ELSE ReturnRows(<<event_data>>) /\ UNCHANGED optIdx
    /\ UNCHANGED <<envVars, probe, scrolls, objVars, sessVars, siteVars, keyword,
                   events, total_items, idx, all_events_data, current_url,
                   progress_value, event_data, options_data, fieldIdx, tried,
                   clicked, outVars, runVars, ghostVars>>

\* What the lookups of sub-position k find.
OptionState(p, k) ==
    IF p.purchase.options = EndlessOptions THEN "full"
    ELSE IF k <= MaxOpt THEN p.purchase.options[k] ELSE "absent"

\* The loop going on past a sub-position whose name or price is missing: the
\* position is skipped and the next one is read.
OptionProbe_SkipGap ==
    /\ pc = "option"
    /\ optIdx <= MaxProbes
    /\ IF OptionState(page, optIdx) = "full"
       THEN /\ options_data' =
                 Append(options_data, OptionRow(event_data, page.item, optIdx))
            /\ optIdx' = optIdx + 1
            /\ pc' = "option"
            /\ UNCHANGED item_data
       ELSE IF OptionState(page, optIdx) \in {"noname", "noprice"}
       THEN /\ optIdx' = optIdx + 1
            /\ pc' = "option"
            /\ UNCHANGED <<options_data, item_data>>
       ELSE /\ ReturnRows(OptionsResult(options_data, event_data))
            /\ UNCHANGED <<options_data, optIdx>>
    /\ UNCHANGED <<envVars, probe, scrolls, objVars, sessVars, siteVars, keyword,
                   events, total_items, idx, all_events_data, current_url,
                   progress_value, event_data, fieldIdx, tried, clicked,
                   containerProbed, outVars, runVars, ghostVars>>

\* Lines 451-483: sub-position optIdx is read; a row is appended, or the
\* loop ends (lines 476-481) and the rows are returned.
OptionProbe ==
    /\ pc = "option"
    /\ optIdx <= MaxProbes
    /\ IF OptionState(page, optIdx) = "full"
       THEN /\ options_data' =
                 Append(options_data, OptionRow(event_data, page.item, optIdx))
            /\ optIdx' = optIdx + 1
            /\ pc' = "option"
            /\ UNCHANGED item_data
       ELSE /\ ReturnRows(OptionsResult(options_data, event_data))
            /\ UNCHANGED <<options_data, optIdx>>
    /\ UNCHANGED <<envVars, probe, scrolls, objVars, sessVars, siteVars, keyword,
                   events, total_items, idx, all_events_data, current_url,
                   progress_value, event_data, fieldIdx, tried, clicked,
                   containerProbed, outVars, runVars, ghostVars>>

(***************************************************************************)
(* Back in scrape_data.                                                    *)
(***************************************************************************)
\* The rows of the item put in front of all_events_data.
Extend_Prepend ==
    /\ pc = "extend"
    /\ all_events_data' = item_data \o all_events_data
    /\ added' = [k \in 1..Len(item_data) |->
                   [item |-> idx, row |-> item_data[k]]] \o added
    /\ itemStatus' = [itemStatus EXCEPT ![idx] = "extracted"]
    /\ pc' = "back"
    /\ UNCHANGED <<envVars, probe, scrolls, objVars, sessVars, siteVars, keyword,
                   events, total_items, idx, current_url, progress_value,
                   item_data, detailVars, outVars, runVars, verifyCalls,
                   verifyFailedAt, searches, probed, attempts>>

\* Lines 590-593: the rows of the item are added to all_events_data.
Extend ==
    /\ pc = "extend"
    /\ all_events_data' =
         IF item_data # <<>> THEN all_events_data \o item_data
         ELSE all_events_data
    /\ added' = added \o [k \in 1..Len(item_data) |->
                            [item |-> idx, row |-> item_data[k]]]
    /\ itemStatus' = [itemStatus EXCEPT ![idx] = "extracted"]
    /\ pc' = "back"
    /\ UNCHANGED <<envVars, probe, scrolls, objVars, sessVars, siteVars, keyword,
                   events, total_items, idx, current_url, progress_value,
                   item_data, detailVars, outVars, runVars, verifyCalls,
                   verifyFailedAt, searches, probed, attempts>>

\* Lines 596-598: the stored URL is loaded again.  wait_for_page_load absorbs
\* a timeout; anything else raised reaches line 600.
NavigateBack ==
    /\ pc = "back"
    /\ page' = NoPage
    /\ \E r \in {"ok", "timeout", "get_raises", "wait_raises"} :
        /\ loc' = IF r = "get_raises" THEN loc ELSE current_url
        /\ IF r \in {"ok", "timeout"}
           THEN /\ pc' = "progress"
                /\ UNCHANGED <<idx, current_url, progress_value, item_data,
                               detailVars, itemStatus, outVars>>
           ELSE ItemFailed("back_failed")
    /\ UNCHANGED <<envVars, probe, scrolls, objVars, sessVars, listing, keyword,
                   events, total_items, all_events_data, runVars, verifyCalls,
                   verifyFailedAt, searches, probed, added, attempts>>

\* Line 604: the progress of the item is reported.
EmitProgress ==
    /\ pc = "progress"
    /\ progress' = Append(progress, progress_value)
    /\ itemStatus' = [itemStatus EXCEPT ![idx] = "done"]
    /\ LoopNext
    /\ UNCHANGED <<envVars, probe, scrolls, objVars, sessVars, siteVars, keyword,
                   events, total_items, all_events_data, returned, outcome,
                   shown, fatalAt, runVars, verifyCalls, verifyFailedAt, searches, probed,
                   added, attempts>>

\* Lines 610-612: the table of everything collected is the return value.
Return ==
    /\ pc = "return"
    /\ returned' = DataFrame(all_events_data)
    /\ outcome' = "complete"
    /\ pc' = "finally"
    /\ UNCHANGED <<envVars, probe, scrolls, objVars, sessVars, siteVars, crawlVars,
                   detailVars, progress, shown, fatalAt, runVars, ghostVars>>

\* Lines 617-618: finally: self.cleanup(); scrape_data returns.
Finally ==
    /\ pc = "finally"
    /\ \E raises \in IF driver = 0 THEN {FALSE} ELSE BOOLEAN :
        Cleanup(raises, quitError)
    /\ pc' = "main"
    /\ probe' = NoProbe
    /\ UNCHANGED <<envVars, scrolls, current_keyword, created, logVars, crawlVars,
                   detailVars, outVars, runVars, ghostVars>>

\* main, lines 890-937: the table is shown, or the warning is.
Main ==
    /\ pc = "main"
    /\ shown' = Shown(returned)
    /\ pc' = "idle"
    /\ UNCHANGED <<envVars, probe, scrolls, objVars, sessVars, siteVars, crawlVars,
                   detailVars, progress, returned, outcome, fatalAt, runVars,
                   ghostVars>>

Next ==
    \/ StartScrape
    \/ SetupDriver_Create
    \/ SetupDriver_Get
    \/ SetupDriver_Cookies
    \/ SetupDriver_Refresh
    \/ SetupDriver_Verify
    \/ ScrapeData_Verify
    \/ SearchKeyword_Get
    \/ SearchKeyword_Scroll
    \/ ScrapeData_Scroll
    \/ FindContainer
    \/ EnumProbe
    \/ ItemBegin
    \/ ItemClick
    \/ ExtractField
    \/ FindSection
    \/ ClickPurchase
    \/ FindOptions
    \/ OptionProbe
    \/ Extend
    \/ NavigateBack
    \/ EmitProgress
    \/ Return
    \/ Finally
    \/ Main

Init == InitIn("crawl")
InitDetail == InitIn("detail")

\* A crawl over a listing of up to MaxPos items.
Spec == Init /\ [][Next]_vars

\* A crawl over a listing of at most one item, over every detail page.
SpecDetail == InitDetail /\ [][Next]_vars

\* A crawl under every credential set.
InitAuth == InitIn("auth")
SpecAuth == InitAuth /\ [][Next]_vars

\* Crawls of a site that answers a keyword the same way every time.
InitRepeat == InitIn("repeat")

SpecRepeat == InitRepeat /\ [][Next]_vars

\* Crawls over the pages myPage may show to check_login_status.
InitLogin == InitIn("login")
SpecLogin == InitLogin /\ [][Next]_vars

\* Crawls of a site whose listing or option list never ends.
InitEndless == InitIn("endless")
SpecEndless == InitEndless /\ [][Next]_vars

(***************************************************************************)
(* Properties.                                                             *)
(***************************************************************************)
\* scrape_data has returned to its caller.
Ended == crawls > 0 /\ pc \in {"main", "idle"}

\* get_event_details is running on the detail page, or has just returned.
InDetails == pc \in {"fields", "section", "buttons", "options", "option", "extend"}

\* The enumeration loop of this crawl has ended and the session is alive.
EnumDone ==
    pc \in {"item_begin", "item_click", "fields", "section", "buttons",
            "options", "option", "extend", "back", "progress", "return"}

Failures == {"url_failed", "click_failed", "back_failed"}

\* The rows position i has contributed to the table.
RowsOf(i) == Cardinality({k \in 1..Len(added) : added[k].item = i})

RowsAdded == [k \in 1..Len(added) |-> added[k].row]

\* The number of leading positions of a listing that resolve.
LeadingRun(l) ==
    CHOOSE k \in 0..MaxPos :
        /\ \A i \in 1..k : l[i]
        /\ k = MaxPos \/ ~l[k + 1]

\* The candidates of field f of page p that are located and whose text can
\* be read, and the text the page shows there.
Resolving(p, f) ==
    {c \in 1..NumSelectors : p.cand[f][c] \in {"hidden", "visible", "badge"}}

Least(S) == CHOOSE m \in S : \A x \in S : m <= x

ShownText(p, f, c) ==
    IF p.cand[f][c] = "visible"
    THEN <<f \o "#" \o ToString(p.item) \o "." \o ToString(c)>>
    ELSE IF p.cand[f][c] = "badge" THEN NewBadge
    ELSE <<>>

\* The value of field f a correct extraction of page p gives.
ExpectedValue(p, f) ==
    IF Resolving(p, f) = {} THEN DefaultEventData[f]
    ELSE ShownText(p, f, Least(Resolving(p, f)))

\* C1: whenever get_event_details returns, it returns at least one row, and
\* every item whose extraction returned has at least one row in the table.
C1_AtLeastOneRow ==
    /\ pc = "extend" => Len(item_data) >= 1
    /\ \A i \in 1..MaxPos :
        itemStatus[i] \in {"extracted", "done", "back_failed"} => RowsOf(i) >= 1

\* C1 witness: the option container resolved and held no readable option;
\* the extraction returned the single row of event_data.
C1_Witness ==
    /\ pc = "extend"
    /\ page.purchase.container
    /\ options_data = <<>>
    /\ item_data = <<event_data>>

\* C2 (as claimed): when the item loop of a crawl has ended, at most
\* MAX_ITEMS positions were enumerated, none beyond MAX_ITEMS was processed
\* and, on a listing of more than MAX_ITEMS resolvable positions, none beyond
\* MAX_ITEMS was probed.  (The source emits no advisory at all.)
C2_ItemCap ==
    pc = "return" =>
        /\ total_items <= MAX_ITEMS
        /\ \A i \in 1..MaxPos : itemStatus[i] # "pending" => i <= MAX_ITEMS
        /\ LeadingRun(listing) > MAX_ITEMS => \A i \in probed : i <= MAX_ITEMS

\* C3: once the enumeration has ended, total_items is the number of leading
\* positions that resolve, whatever lies beyond the first gap, and the
\* positions probed are 1 .. total_items + 1.
C3_FirstGapStops ==
    EnumDone =>
        /\ total_items = LeadingRun(listing)
        /\ probed = 1..(total_items + 1)

\* C3 witness: position 1 resolves, 2 does not, 3 would have; one item.
C3_Witness ==
    /\ EnumDone
    /\ listing[1] /\ ~listing[2] /\ listing[3]
    /\ total_items = 1

\* C4 (as claimed): an item that failed, at whatever step, has no row in
\* the table.
C4_FailedItemNoRows ==
    \A i \in 1..MaxPos : itemStatus[i] \in Failures => RowsOf(i) = 0

\* C4 (amended): an item that failed before its extraction has no row, an
\* item that failed on the way back keeps the rows extracted; the table
\* holds every row added so far, a failed item never makes the crawl fatal,
\* and when the loop has ended every enumerated position has been attempted.
C4_ItemFailureIsolated ==
    /\ \A i \in 1..MaxPos :
        /\ itemStatus[i] \in {"url_failed", "click_failed"} => RowsOf(i) = 0
        /\ itemStatus[i] = "back_failed" => RowsOf(i) >= 1
        /\ itemStatus[i] \in Failures => outcome # "fatal"
    /\ all_events_data = RowsAdded
    /\ (pc = "return" \/ outcome = "complete") =>
          \A j \in 1..total_items : itemStatus[j] # "pending"

\* C4 witness: of three items the second failed at its click; the first and
\* the third were completed and the crawl returned normally.
C4_Witness ==
    /\ outcome = "complete"
    /\ itemStatus[1] = "done"
    /\ itemStatus[2] = "click_failed"
    /\ itemStatus[3] = "done"
    /\ RowsOf(1) >= 1 /\ RowsOf(2) = 0 /\ RowsOf(3) >= 1

\* C5: when scrape_data has returned, the rows of the returned table are all
\* the rows added during the crawl, in the order they were added.
C5_NothingDiscarded == Ended => returned.rows = RowsAdded

\* C5 witness: rows were added, a later item failed and the teardown raised;
\* the table was returned.
C5_Witness ==
    /\ Ended
    /\ itemStatus[1] = "done"
    /\ itemStatus[2] \in Failures
    /\ quitError
    /\ returned.rows # <<>>

\* C6: when scrape_data has returned, self.driver is None and quit() has been
\* called on every session created.
C6_SessionTornDown ==
    Ended =>
        /\ driver = 0
        /\ \A s \in 1..created : \E k \in 1..Len(quitCalls) : quitCalls[k] = s

\* C6 witness: a crawl that failed fatally after its session was created,
\* and whose quit() raised.
C6_Witness ==
    /\ Ended
    /\ outcome = "fatal"
    /\ created >= 1
    /\ quitError

\* C7: once a login verification has failed, no search is issued, no listing
\* position is probed, no item is processed, no further verification is
\* made and the crawl is fatal.
C7_AuthFailureAborts ==
    verifyFailedAt # 0 =>
        /\ searches = 0
        /\ probed = {}
        /\ \A i \in 1..MaxPos : itemStatus[i] = "pending"
        /\ verifyCalls = verifyFailedAt
        /\ outcome = "fatal"

\* C7 witness: the verification of setup_driver passed, the one of
\* scrape_data failed, and the crawl has returned.
C7_Witness == Ended /\ verifyFailedAt = 2

\* C8 (as claimed): what a fatal crawl returns and shows differs from what a
\* crawl that completed with no row returns and shows.
C8_FatalDistinguishable ==
    (pc = "idle" /\ outcome = "fatal") =>
        \/ returned # DataFrame(<<>>)
        \/ shown # Shown(DataFrame(<<>>))

\* C9: for a purchase section without buttons the extraction returns exactly
\* one row, with the placeholder option name and price and the extracted
\* value of every other field; no button is clicked on and the option
\* container is not looked for.
C9_ZeroButtons ==
    (pc = "extend" /\ page.purchase.section /\ page.purchase.buttons = 0) =>
        /\ Len(item_data) = 1
        /\ item_data[1].option_name = NoOption
        /\ item_data[1].price = NoPrice
        /\ item_data[1].detail_link = NA
        /\ \A f \in FieldSet : item_data[1][f] = ExpectedValue(page, f)
        /\ clicked = -1
        /\ ~containerProbed

\* C9 witness: a page whose fields resolve at the secondary locator and
\* whose purchase section has no button.
C9_Witness ==
    /\ pc = "extend"
    /\ page.purchase.section
    /\ page.purchase.buttons = 0
    /\ page.cand = Uniform("absent", "visible")
    /\ item_data[1].event_name = ShownText(page, "event_name", 2)

\* Block k of get_event_details has run on the current page.
FieldDone(k) == InDetails /\ (pc = "fields" => k < fieldIdx)

\* C10: for every field extracted, the candidates were tried in their listed
\* order from the first; a candidate was tried only when every earlier one
\* had failed; the first that resolves gave the value and none after it was
\* tried; the placeholder is there exactly when every candidate failed.
C10_SelectorOrder ==
    \A k \in 1..Len(FieldOrder) :
        FieldDone(k) =>
            LET f == FieldOrder[k]
                ok == Resolving(page, f)
                n == Len(tried[f])
            IN /\ n >= 1
               /\ tried[f] = [j \in 1..n |-> j]
               /\ \A j \in 1..n : \A e \in 1..(j - 1) : e \notin ok
               /\ ok # {} => n = Least(ok) /\ event_data[f] = ShownText(page, f, n)
               /\ ok = {} => n = NumSelectors /\ event_data[f] = DefaultEventData[f]
               /\ event_data[f] = DefaultEventData[f] => ok = {}

\* C10 witness: the primary locator of the rating is located and its text
\* cannot be read, the secondary is located and hidden; both were tried and
\* the rating is the empty text of the secondary.
C10_Witness ==
    /\ pc = "extend"
    /\ page.cand["rating"] = <<"stale", "hidden">>
    /\ tried["rating"] = <<1, 2>>
    /\ event_data.rating = <<>>

\* The token has a value that is not empty.
HasValue(c, t) == c[t] = "value"

\* Some tokens have a value and some have not.
Partial(c) ==
    /\ \E t \in Tokens : HasValue(c, t)
    /\ \E t \in Tokens : ~HasValue(c, t)

\* C11 (as claimed): under a credential set in which some but not all tokens
\* have a value, once the cookie loop has run without an add_cookie error
\* the session holds a cookie for exactly the tokens with a non-empty value
\* and a warning was logged for exactly the tokens without one; the crawl
\* is then at the reload that precedes the login verification.
C11_PartialCredentials ==
    (pc = "setup_refresh" /\ Partial(creds) /\ cookieErrors = {}) =>
        /\ cookies = {t \in Tokens : HasValue(creds, t)}
        /\ warned = {t \in Tokens : ~HasValue(creds, t)}

\* C12 (as claimed): when every token is missing, setup_driver never returns
\* normally and no search is issued, whatever check_login_status answers.
C12_AllMissingFatal ==
    (\A t \in Tokens : IsNone(creds[t])) =>
        (pc # "scrape_verify" /\ searches = 0)

\* a <= b for fractions <<n, d>> with d > 0.
FracLeq(a, b) == a[1] * b[2] <= b[1] * a[2]

\* The fraction is 1.
FracIsOne(a) == a[1] = a[2]

\* C13: the progress values of a crawl lie in [0, 1] and never decrease.
C13_ProgressMonotone ==
    /\ \A k \in 1..Len(progress) :
        /\ progress[k][2] > 0
        /\ 0 <= progress[k][1]
        /\ progress[k][1] <= progress[k][2]
    /\ \A k \in 1..(Len(progress) - 1) : FracLeq(progress[k], progress[k + 1])

\* C13 witness: of three items the second failed; 0.2, 0.3, the value of the
\* first item and the value of the third were reported.
C13_Witness ==
    /\ pc = "return"
    /\ total_items = 3
    /\ itemStatus[1] = "done"
    /\ itemStatus[2] \in Failures
    /\ itemStatus[3] = "done"
    /\ progress = <<<<2, 10>>, <<3, 10>>, ProgressValue(1, 3), ProgressValue(3, 3)>>

\* C14 (as claimed): when the item loop of a crawl over N >= 1 items has
\* ended, 0.2 and 0.3 were the first two values reported and the last value
\* reported is 1.0, whether or not items failed.
C14_ProgressCheckpoints ==
    (pc = "return" /\ total_items >= 1) =>
        /\ Len(progress) >= 3
        /\ progress[1] = <<2, 10>>
        /\ progress[2] = <<3, 10>>
        /\ FracIsOne(progress[Len(progress)])

\* The option sub-position an added row was read at (0: not an option row).
OptionNames ==
    [i \in 1..MaxPos |-> [k \in 1..MaxOpt |-> Strip(RawOptionName(i, k))]]

SubPos(e) ==
    LET at == {k \in 1..MaxOpt : e.row.option_name = OptionNames[e.item][k]}
    IN IF at = {} THEN 0 ELSE CHOOSE k \in at : TRUE

\* C15: the table holds the rows in the order they were added; of any two
\* consecutive rows the second belongs to the same position or to a later
\* one, and two consecutive rows of one position are option rows of
\* increasing sub-position (so the rows of position i all precede the rows
\* of position j > i, and the rows of one position are in sub-position
\* order); the table returned by a crawl that completed has that order.
C15_ListingOrder ==
    /\ all_events_data = RowsAdded
    /\ \A a \in 1..(Len(added) - 1) :
        /\ added[a].item <= added[a + 1].item
        /\ added[a].item = added[a + 1].item =>
              (1 <= SubPos(added[a]) /\ SubPos(added[a]) < SubPos(added[a + 1]))
    /\ (Ended /\ outcome = "complete") => returned.rows = RowsAdded

\* C15 witness: a crawl has returned the option rows of position 1 followed
\* by the option rows of position 2.
C15_Witness ==
    /\ Ended
    /\ outcome = "complete"
    /\ Len(returned.rows) = 2 * MaxOpt
    /\ \A k \in 1..MaxOpt :
        /\ returned.rows[k].option_name = Strip(RawOptionName(1, k))
        /\ returned.rows[MaxOpt + k].option_name = Strip(RawOptionName(2, k))

\* C16: a second call of scrape_data starts from no session and no row, and
\* when it is given the keyword of the call before it and the site answers
\* it as it answered that call, it returns the same rows in the same order.
C16_Idempotent ==
    /\ (crawls >= 2 /\ pc = "setup_driver") =>
          (driver = 0 /\ all_events_data = <<>> /\ cookies = {})
    /\ (Ended /\ crawls >= 2 /\ prev.keyword = keyword
           /\ prev.status = itemStatus /\ prev.outcome = outcome) =>
          returned.rows = prev.rows

\* C16 witness: two crawls of one keyword have both returned the same
\* option rows.
C16_Witness ==
    /\ Ended
    /\ crawls = 2
    /\ prev.keyword = keyword
    /\ prev.status = itemStatus
    /\ prev.outcome = "complete"
    /\ outcome = "complete"
    /\ Len(prev.rows) = MaxOpt
    /\ returned.rows = prev.rows

\* C17 (as claimed): whenever an item cycle begins, and until the position
\* is resolved and clicked on, the session is on the listing page.
C17_OnListingAtItemStart ==
    pc \in {"item_begin", "item_click"} => loc = "listing"

\* The positions of session setup and authentication, and of the search
\* with its scrolling.
SetupSteps ==
    {"setup_driver", "setup_get", "setup_refresh", "setup_verify",
     "scrape_verify"}

SearchSteps == {"search", "search_scroll", "scroll"}

\* The positions of listing discovery: the list container, the enumeration.
DiscoverySteps == {"container", "enumerate"}

\* C18 (as claimed): a fatal crawl failed during session setup,
\* authentication or the search.
C18_FatalOnlyFromSetupSearch ==
    outcome = "fatal" => fatalAt \in SetupSteps \cup SearchSteps

\* C18 (amended): a fatal crawl failed during session setup, authentication,
\* the search or the discovery of the listing; once an item cycle has begun
\* the crawl is never fatal, and a fatal crawl began no item cycle and
\* added no row.
C18_FatalBeforeItems ==
    /\ outcome = "fatal" =>
        /\ fatalAt \in SetupSteps \cup SearchSteps \cup DiscoverySteps
        /\ attempts = <<>>
        /\ added = <<>>
        /\ \A i \in 1..MaxPos : itemStatus[i] = "pending"
    /\ attempts # <<>> => outcome # "fatal"

\* C18 witness: two positions resolved, the probe of the next raised another
\* exception than NoSuchElementException, and the crawl returned as fatal.
C18_Witness ==
    /\ Ended
    /\ outcome = "fatal"
    /\ fatalAt = "enumerate"
    /\ events = 2

\* An item cycle is running on position idx.
InCycle ==
    pc \in {"item_click", "fields", "section", "buttons", "options", "option",
            "extend", "back", "progress"}

CycleEnded(i) == itemStatus[i] \in Failures \cup {"done"}

\* C19: the positions whose cycle began are 1, 2, ... in that order, each
\* once, up to total_items; when a cycle begins the cycle of every earlier
\* position has ended, while one runs no later position was touched, and
\* when the loop has ended every position was attempted.
C19_EachPositionOnce ==
    /\ attempts = [k \in 1..Len(attempts) |-> k]
    /\ Len(attempts) <= total_items
    /\ pc = "item_begin" =>
        /\ Len(attempts) = idx - 1
        /\ \A j \in 1..(idx - 1) : CycleEnded(j)
        /\ \A j \in idx..MaxPos : itemStatus[j] = "pending"
    /\ InCycle =>
        /\ Len(attempts) = idx
        /\ \A j \in 1..(idx - 1) : CycleEnded(j)
        /\ \A j \in (idx + 1)..MaxPos : itemStatus[j] = "pending"
    /\ (pc = "return" \/ outcome = "complete") =>
        /\ Len(attempts) = total_items
        /\ \A j \in 1..total_items : CycleEnded(j)

\* C19 witness: the loop over three positions has ended; the second failed
\* and was not tried again.
C19_Witness ==
    /\ pc = "return"
    /\ attempts = <<1, 2, 3>>
    /\ itemStatus[1] = "done"
    /\ itemStatus[2] = "click_failed"
    /\ itemStatus[3] = "done"

\* C20: once the buttons of a purchase section have been dealt with, the
\* button clicked on is the only one of one, the second of several; when
\* that click failed the extraction has returned the single row of
\* event_data with the placeholder option name and price, and neither the
\* option container nor an option was looked for.
C20_ButtonChoice ==
    (pc \in {"options", "option", "extend"} /\ page.purchase.section) =>
        /\ page.purchase.buttons = 1 => clicked = 0
        /\ page.purchase.buttons >= 2 => clicked = 1
        /\ (page.purchase.buttons >= 1 /\ ~page.purchase.clickOk) =>
            /\ pc = "extend"
            /\ item_data = <<event_data>>
            /\ item_data[1].option_name = NoOption
            /\ item_data[1].price = NoPrice
            /\ ~containerProbed
            /\ options_data = <<>>
            /\ optIdx = 0

\* C20 witness: a section of MaxButtons buttons whose second button was
\* clicked on and the click failed.
C20_Witness ==
    /\ pc = "extend"
    /\ page.purchase.section
    /\ page.purchase.buttons = MaxButtons
    /\ ~page.purchase.clickOk
    /\ clicked = 1
    /\ item_data = <<event_data>>

\* The number of leading sub-positions of page p whose element, name and
\* price all resolve, and the row the page shows at sub-position k.
RECURSIVE LeadingFull(_, _)
LeadingFull(p, k) ==
    IF k <= MaxOpt /\ p.purchase.options[k] = "full"
    THEN LeadingFull(p, k + 1) ELSE k - 1

ShownOption(ed, i, k) ==
    [ed EXCEPT !.option_name = <<"option#" \o ToString(i) \o "." \o ToString(k)>>,
               !.price = <<"price#" \o ToString(i) \o "." \o ToString(k)>>]

\* The option loop of the item has run and get_event_details has returned.
OptionsExpanded == pc = "extend" /\ containerProbed /\ page.purchase.container

\* C21: option expansion reads the sub-positions 1, 2, 3, ... in order and
\* stops at the first one whose element, name or price lookup fails: when
\* exactly the sub-positions 1..m resolve in full, m option rows are emitted,
\* one per sub-position in order, each with the item's fields and the name and
\* price shown there; the failing sub-position gives no row (a name without a
\* price included) and no sub-position after it is read.
C21_FirstFailureStops ==
    /\ pc = "option" =>
         /\ optIdx = Len(options_data) + 1
         /\ optIdx <= LeadingFull(page, 1) + 1
    /\ OptionsExpanded =>
         LET m == LeadingFull(page, 1)
         IN /\ Len(options_data) = m
            /\ optIdx = m + 1
            /\ \A k \in 1..m :
                 options_data[k] = ShownOption(event_data, page.item, k)
            /\ m >= 1 => item_data = options_data

\* C21 witness: sub-position 1 resolves in full and sub-position 2 has a name
\* and no price; one row was returned although a sub-position resolves.
C21_Witness ==
    /\ OptionsExpanded
    /\ page.purchase.options[1] = "full"
    /\ page.purchase.options[2] = "noprice"
    /\ Len(item_data) = 1
    /\ item_data[1].option_name = <<"option#1.1">>

\* The fields of page p none of whose candidates resolves.
FailingFields(p) ==
    {f \in FieldSet : \A c \in 1..NumSelectors : CandidateFails(p.cand[f][c])}

\* C22: field extraction is independent per field.  Whatever subset of the
\* fields has all its candidates fail, exactly those fields carry their
\* placeholder and every other field the value extracted for it; every one of
\* the seven blocks is attempted, and the purchase section and its options
\* are still attempted afterwards.
C22_FieldsIndependent ==
    /\ \A k \in 1..Len(FieldOrder) :
         FieldDone(k) =>
           LET f == FieldOrder[k]
           IN /\ tried[f] # <<>>
              /\ f \in FailingFields(page) => event_data[f] = DefaultEventData[f]
              /\ f \notin FailingFields(page) =>
                   /\ event_data[f] = ExpectedValue(page, f)
                   /\ event_data[f] # DefaultEventData[f]
    /\ pc = "extend" =>
         /\ \A k \in 1..Len(item_data) : \A f \in FieldSet :
              item_data[k][f] = event_data[f]
         /\ (page.purchase.section /\ page.purchase.clickOk
               /\ page.purchase.buttons >= 1) => containerProbed
         /\ OptionsExpanded =>
              Len(item_data) = IF LeadingFull(page, 1) = 0 THEN 1
                               ELSE LeadingFull(page, 1)

\* C22 witness: the first, third and fifth field fail, the others resolve,
\* and the options of the item were expanded into several rows.
C22_Witness ==
    /\ OptionsExpanded
    /\ FailingFields(page) = {FieldOrder[1], FieldOrder[3], FieldOrder[5]}
    /\ Len(item_data) = MaxOpt
    /\ item_data[1][FieldOrder[1]] = DefaultEventData[FieldOrder[1]]
    /\ item_data[1][FieldOrder[2]] # DefaultEventData[FieldOrder[2]]

\* The candidates of field f of page p that exist and are visible.
Visible(p, f) == {c \in 1..NumSelectors : p.cand[f][c] = "visible"}

\* C23 (as claimed): a candidate of a field is accepted only when its element
\* exists and is visible: a field's value is the text of the first candidate
\* that is visible, so that a hidden primary candidate makes the extraction
\* go on to the next one, and the placeholder when no candidate is visible.
C23_VisibleOnly ==
    \A k \in 1..Len(FieldOrder) :
        FieldDone(k) =>
          LET f == FieldOrder[k]
          IN /\ tried[f] # <<>> =>
                  \/ page.cand[f][tried[f][Len(tried[f])]] = "visible"
                  \/ Visible(page, f) = {}
             /\ event_data[f] =
                  IF Visible(page, f) = {} THEN DefaultEventData[f]
                  ELSE ShownText(page, f, Least(Visible(page, f)))

\* C24 (as claimed): when a "NEW" badge occupies the primary title slot of the
\* detail page, the title extracted is the text of the slot after it: the
\* badge case is looked at before the plain title candidates, and the badge
\* text never becomes the title.
C24_BadgeTitle ==
    /\ (FieldDone(1) /\ page.cand["event_name"][1] = "badge") =>
         event_data.event_name = SiblingTitle(page.item)
    /\ \A k \in 1..Len(item_data) : item_data[k].event_name # NewBadge

\* The scroll rounds of the calls in sq, added up.
RECURSIVE Rounds(_)
Rounds(sq) == IF sq = <<>> THEN 0 ELSE Head(sq).rounds + Rounds(Tail(sq))

\* C25 (as claimed): between the issue of the search and the start of the
\* enumeration the crawl scrolls at most NumRounds times in total, and after
\* the first round in which the page did not grow it does not scroll again.
C25_ScrollBound ==
    pc = "container" =>
      /\ Rounds(scrolls) <= NumRounds
      /\ \A j \in 1..Len(scrolls) : \A k \in 1..Len(scrolls) :
           (j < k /\ scrolls[j].stalled) => scrolls[k].rounds = 0

\* C26 (as claimed): every crawl terminates: the loop over the listing
\* positions and the loop over the option sub-positions each stop after a
\* bounded number of probes, also against a page on which every position
\* probed resolves.  Within the probes the model follows, a loop that has
\* read MaxProbes positions is over.
C26_LoopsBounded ==
    /\ pc = "enumerate" => idx <= MaxProbes
    /\ pc = "option" => optIdx <= MaxProbes

\* The indicators that are present and visible on the page of the last call.
VisibleInds == {k \in 1..NumIndicators : probe.ind[k] = "visible"}

\* C27: check_login_status always returns a boolean and never raises.  It
\* tries the indicators in order and returns true at the first one that is
\* present and visible, without trying the later ones; it returns false when
\* no indicator is, whether or not a login link is on the page, and when a step
\* of it fails, the navigation to the account page included.
C27_LoginBoolean ==
    probe.called =>
      LET c == probe.call
      IN /\ ~c.raised
         /\ c.returned \in BOOLEAN
         /\ c.returned = (probe.navOk /\ VisibleInds # {})
         /\ (probe.navOk /\ VisibleInds # {}) =>
              c.tried = [j \in 1..Least(VisibleInds) |-> j]
         /\ (probe.navOk /\ VisibleInds = {}) =>
              c.tried = [j \in 1..NumIndicators |-> j]
         /\ ~probe.navOk => c.tried = <<>>
         /\ ~c.returned => outcome = "fatal"

\* C27 witness: the first indicator is present and hidden, the second and the
\* third are visible: the call returned true after trying two indicators.
C27_Witness ==
    /\ probe.called
    /\ probe.navOk
    /\ probe.ind[1] = "hidden"
    /\ probe.ind[2] = "visible"
    /\ probe.ind[3] = "visible"
    /\ probe.call.returned
    /\ probe.call.tried = <<1, 2>>

\* The sessions created and not asked to quit.
Live == {n \in 1..created : \A k \in 1..Len(quitCalls) : quitCalls[k] # n}

\* C28: a scraper holds at most one live session: self.driver is the one
\* session created and not yet asked to quit, or None when there is none; when
\* setup_driver is about to create a session none is live; no session is asked
\* to quit twice, and after a cleanup whose quit() raised the reference is
\* cleared all the same.
C28_OneSession ==
    /\ Cardinality(Live) <= 1
    /\ driver # 0 => Live = {driver}
    /\ driver = 0 => Live = {}
    /\ pc = "setup_driver" => driver = 0
    /\ \A j \in 1..Len(quitCalls) : \A k \in 1..Len(quitCalls) :
         j # k => quitCalls[j] # quitCalls[k]
    /\ (quitError /\ pc \in {"main", "idle"}) => driver = 0

\* C28 witness: two crawls, each with a session of its own; the second
\* session was asked to quit once, quit() raised, and no session is held.
C28_Witness ==
    /\ Ended
    /\ created = 2
    /\ quitCalls = <<1, 2>>
    /\ quitError
    /\ driver = 0

\* The enumeration of the crawl found its list container and no position 1.
ZeroItems == (pc = "return" \/ outcome = "complete") /\ total_items = 0

\* C29: when the list container resolves and position 1 does not, the crawl
\* completes without error: the item loop is not entered (no item cycle, no
\* progress value over the item count, which is 0), nothing above 0.3 is
\* reported, the table returned is empty and the session is torn down.
C29_ZeroItems ==
    /\ pc = "item_begin" => total_items >= 1
    /\ ZeroItems =>
         /\ probed = {1}
         /\ attempts = <<>>
         /\ added = <<>>
         /\ all_events_data = <<>>
         /\ progress_value = <<0, 1>>
         /\ progress = <<<<2, 10>>, <<3, 10>>>>
         /\ fatalAt = "none"
         /\ outcome = "complete" => returned = DataFrame(<<>>)
         /\ Ended => driver = 0 /\ Live = {}

\* C29 witness: a crawl over a listing without a first position has ended.
C29_Witness ==
    /\ Ended
    /\ outcome = "complete"
    /\ total_items = 0
    /\ probed = {1}
    /\ created >= 1
    /\ Empty(returned)

\* Every row of the sequence rows has the placeholder as its detail_link.
NoLink(rows) == \A k \in 1..Len(rows) : rows[k].detail_link = NA

\* C30: the detail_link of every row is the placeholder 'N/A': no step of the
\* extraction writes it, although the address of the page is known, neither
\* in the row of an item without options nor in the rows of its options.
C30_DetailLinkNA ==
    /\ event_data.detail_link = NA
    /\ NoLink(options_data)
    /\ NoLink(item_data)
    /\ NoLink(all_events_data)
    /\ NoLink(returned.rows)

\* C30 witness: the options of an item were expanded into rows while the
\* address of its page was held in current_url.
C30_Witness ==
    /\ OptionsExpanded
    /\ current_url # "none"
    /\ Len(item_data) = MaxOpt
    /\ item_data[1].option_name # NoOption
    /\ item_data[1].detail_link = NA

====
